---------------------------- MODULE Spec2Model ----------------------------
(***************************************************************************)
(* Model of the YT2MP3 backend (src/main.py): the in-memory progress       *)
(* store, the path resolver and the save / stream request handlers.        *)
(*                                                                         *)
(* Every endpoint is an `async def` that never awaits, served by one       *)
(* uvicorn event loop (main.py:285-287), so a handler runs from its first   *)
(* line to its response without any other handler running in between.      *)
(* The variable `running` is that event loop: a handler's steps are        *)
(* separate actions, and every other endpoint is guarded by the loop       *)
(* being free.                                                             *)
(*                                                                         *)
(* File names and paths are sequences of one-character strings.            *)
(***************************************************************************)
EXTENDS Integers, Sequences, FiniteSets, TLC

(***************************************************************************)
(* Bounds of the model.                                                    *)
(***************************************************************************)
MaxRequests == 2

Req == 1..MaxRequests

(***************************************************************************)
(* Characters and strings.                                                 *)
(***************************************************************************)
Digits == <<"0", "1", "2", "3", "4", "5", "6", "7", "8", "9">>
DigitSet == {Digits[i] : i \in 1..10}
Letters == {"a", "b", "c", "d", "m", "o", "p", "t", "v", "y", "N", "A"}
Whitespace == {" "}

\* str.isalnum() on one character
isalnum(c) == c \in Letters \cup DigitSet

Sep == "/"
MP3 == <<".", "m", "p", "3">>

\* str(n) for n >= 0
RECURSIVE str(_)
str(n) == IF n < 10 THEN <<Digits[n + 1]>>
          ELSE str(n \div 10) \o <<Digits[(n % 10) + 1]>>

\* s.rfind(c): index (1-based) of the last c in s, 0 when there is none
RECURSIVE rfind(_, _)
rfind(s, c) == IF s = <<>> THEN 0
               ELSE IF s[Len(s)] = c THEN Len(s)
               ELSE rfind(SubSeq(s, 1, Len(s) - 1), c)

\* s.startswith / s.endswith
startswith(s, pre) == Len(s) >= Len(pre) /\ SubSeq(s, 1, Len(pre)) = pre
endswith(s, suf) ==
    Len(s) >= Len(suf) /\ SubSeq(s, Len(s) - Len(suf) + 1, Len(s)) = suf

\* s.strip()
RECURSIVE lstrip(_)
lstrip(s) == IF s # <<>> /\ s[1] \in Whitespace THEN lstrip(Tail(s)) ELSE s
RECURSIVE rstrip(_)
rstrip(s) == IF s # <<>> /\ s[Len(s)] \in Whitespace
             THEN rstrip(SubSeq(s, 1, Len(s) - 1)) ELSE s
strip(s) == rstrip(lstrip(s))

\* s.replace(c, '')
remove_char(s, c) == SelectSeq(s, LAMBDA x : x # c)

(***************************************************************************)
(* os.path                                                                 *)
(***************************************************************************)
\* os.path.splitext(p) = <<root, ext>>: the extension starts at the last dot
\* of the last path component, unless only dots precede it in the component.
splitext(p) ==
    LET sepIndex == rfind(p, Sep)
        dotIndex == rfind(p, ".")
    IN  IF /\ dotIndex > sepIndex
           /\ \E i \in (sepIndex + 1)..(dotIndex - 1) : p[i] # "."
        THEN <<SubSeq(p, 1, dotIndex - 1), SubSeq(p, dotIndex, Len(p))>>
        ELSE <<p, <<>>>>

\* os.path.join(a, b)
join(a, b) == IF startswith(b, <<Sep>>) THEN b
              ELSE IF a = <<>> \/ endswith(a, <<Sep>>) THEN a \o b
              ELSE a \o <<Sep>> \o b

\* os.path.basename(p)
basename(p) == SubSeq(p, rfind(p, Sep) + 1, Len(p))

\* os.path.exists(path) against the files on disk
exists(fs, path) == path \in fs

(***************************************************************************)
(* get_unique_path (main.py:67-75)                                         *)
(***************************************************************************)
copy_name(base, counter, ext) ==
    base \o <<"_", "c", "o", "p", "y">> \o str(counter) \o ext

\* a resolver that probes one copy name and returns it unchecked
unique_loop_single_probe(fs, directory, base, ext, path, counter) ==
    IF exists(fs, path)
    THEN join(directory, copy_name(base, counter, ext))
    ELSE path

RECURSIVE unique_loop(_, _, _, _, _, _)
unique_loop(fs, directory, base, ext, path, counter) ==
    IF exists(fs, path)
    THEN unique_loop(fs, directory, base, ext,
                     join(directory, copy_name(base, counter, ext)),
                     counter + 1)
    ELSE path

get_unique_path(fs, directory, filename) ==
    LET base == splitext(filename)[1]
        ext == splitext(filename)[2]
    IN  unique_loop(fs, directory, base, ext, join(directory, filename), 1)

(***************************************************************************)
(* Progress entries (the dict values stored in download_progress)          *)
(***************************************************************************)
NotStarted == [status |-> "not_started", progress |-> 0]
Starting == [status |-> "starting", progress |-> 0]
Downloading(p, speed, eta) ==
    [status |-> "downloading", progress |-> p, speed |-> speed, eta |-> eta]
Processing ==
    [status |-> "processing", progress |-> 100, message |-> "Converting to MP3..."]
Finished(path, filename) ==
    [status |-> "finished", progress |-> 100, path |-> path, filename |-> filename]
Error(msg) == [status |-> "error", message |-> msg]

(***************************************************************************)
(* Python dict operations on download_progress                             *)
(***************************************************************************)
\* d[k] = v
dict_set(d, k, v) == [x \in DOMAIN d \cup {k} |-> IF x = k THEN v ELSE d[x]]
\* a delete that leaves the key in place
dict_del_keeps_key(d, k) == d

\* del d[k]
dict_del(d, k) == [x \in DOMAIN d \ {k} |-> d[x]]
\* d.get(k, default)
dict_get(d, k, default) == IF k \in DOMAIN d THEN d[k] ELSE default

(***************************************************************************)
(* Session ids.  None is Python's None; a request without one draws        *)
(* uuid4().hex[:8], any of GenIds.                                         *)
(***************************************************************************)
None == "None"
ClientIds == {"s1"}
GenIds == {"g1"}
SessionIds == ClientIds \cup GenIds

(***************************************************************************)
(* The extraction engine (module youtube_downloader, imported at           *)
(* main.py:15).  Its contract is taken from the specification, section 6.  *)
(***************************************************************************)
Urls == {"https://youtu.be/v", "not-a-video-url"}

\* validate_youtube_url(url): the video id, or {} when it raises ValueError
validate_youtube_url(url) == IF url = "https://youtu.be/v" THEN {<<"v">>} ELSE {}

\* titles get_video_info can report
Titles == {<<"a", ":", " ">>, <<":">>}

NoExc == [type |-> "none", msg |-> "", src |-> ""]
InvalidInput ==
    [type |-> "ValueError", msg |-> "Invalid YouTube URL", src |-> "validate_youtube_url"]
Unavailable ==
    [type |-> "Exception", msg |-> "Video unavailable", src |-> "get_video_info"]
ExtractionFailure ==
    {[type |-> t, msg |-> "Download failed", src |-> "download_youtube_audio"] :
        t \in {"RuntimeError", "Exception"}}

\* the file download_youtube_audio produces: output_dir/filename, with .mp3
\* appended unless the name already ends with it (main.py:160-161)
engine_output_path(output_dir, filename) ==
    join(output_dir, IF endswith(filename, MP3) THEN filename ELSE filename \o MP3)

\* progress events handed to the hook; an absent key is the empty set
DownloadingEvents ==
    { [status |-> "downloading", percent_str |-> {}, speed_str |-> {}, eta_str |-> {}],
      [status |-> "downloading", percent_str |-> {<<" ", "5", "0", ".", "0", "%">>},
       speed_str |-> {"1.0MiB/s"}, eta_str |-> {"00:05"}],
      [status |-> "downloading", percent_str |-> {<<"N", "/", "A">>},
       speed_str |-> {}, eta_str |-> {}] }
FinishedEvent ==
    [status |-> "finished", percent_str |-> {}, speed_str |-> {}, eta_str |-> {}]
ErrorEvent ==
    [status |-> "error", percent_str |-> {}, speed_str |-> {}, eta_str |-> {}]
Events == DownloadingEvents \cup {FinishedEvent, ErrorEvent}

\* d.get(key, default)
event_get(field, default) == IF field = {} THEN default ELSE CHOOSE x \in field : TRUE

(***************************************************************************)
(* progress_hook (main.py:78-95)                                           *)
(***************************************************************************)
\* value of a digit string
RECURSIVE digits_value(_)
digits_value(s) ==
    IF s = <<>> THEN 0
    ELSE 10 * digits_value(SubSeq(s, 1, Len(s) - 1))
         + (CHOOSE n \in 0..9 : Digits[n + 1] = s[Len(s)])

\* float(p): {} when it raises ValueError, else {value}.  Covers the forms
\* the events carry: digits, optionally followed by a dot and zeros,
\* surrounded by whitespace.
float(p) ==
    LET t == strip(p)
        dot == rfind(t, ".")
        int_part == IF dot = 0 THEN t ELSE SubSeq(t, 1, dot - 1)
        frac_part == IF dot = 0 THEN <<>> ELSE SubSeq(t, dot + 1, Len(t))
    IN  IF /\ int_part # <<>>
           /\ \A i \in 1..Len(int_part) : int_part[i] \in DigitSet
           /\ \A j \in 1..Len(frac_part) : frac_part[j] = "0"
        THEN {digits_value(int_part)}
        ELSE {}

\* a hook that reports 0 percent when the percent string does not parse
progress_hook_zero_when_unparsable(d) ==
    IF d.status = "downloading"
    THEN LET p == remove_char(event_get(d.percent_str, <<"0", "%">>), "%")
             v == IF float(p) = {} THEN 0 ELSE CHOOSE x \in float(p) : TRUE
         IN  {Downloading(v, event_get(d.speed_str, "N/A"),
                          event_get(d.eta_str, "N/A"))}
    ELSE IF d.status = "finished" THEN {Processing}
    ELSE {}

\* the entry progress_hook stores for event d, {} when it stores nothing
progress_hook(d) ==
    IF d.status = "downloading"
    THEN LET p == remove_char(event_get(d.percent_str, <<"0", "%">>), "%")
         IN  {Downloading(v, event_get(d.speed_str, "N/A"),
                          event_get(d.eta_str, "N/A")) : v \in float(p)}
    ELSE IF d.status = "finished" THEN {Processing}
    ELSE {}

(***************************************************************************)
(* State                                                                   *)
(***************************************************************************)
VARIABLES
    download_progress,  \* main.py:25, session id -> progress entry
    DOWNLOAD_DIR,       \* main.py:44-53, the save directory fixed at startup
    files,              \* the paths that exist on disk
    req,                \* per request: the handler's position and locals
    running,            \* the request the event loop is executing, {} if free
    polled,             \* body of the GET /progress response just served
    history,            \* per session id: the last store operation on it
    streamed,           \* artifacts that finished stream requests found on disk
    saved               \* what the save requests answered with success produced

vars ==
    <<download_progress, DOWNLOAD_DIR, files, req, running, polled, history,
      streamed, saved>>

\* save directories: the configured one, or the fallback of main.py:51
SaveDirs == {<<"/", "d">>}

\* files that may be present when the server starts
a_mp3 == <<"a">> \o MP3
PreExisting(dir) == {join(dir, a_mp3)}

NoResponse == [code |-> 0, detail |-> <<"", "">>, path |-> <<>>, filename |-> <<>>]

IdleFrame ==
    [pc |-> "idle", kind |-> "none", url |-> "", use_hash |-> FALSE,
     filename |-> <<>>, session_id |-> None, video_id |-> <<>>,
     title |-> <<>>, filename_to_use |-> <<>>, final_path |-> <<>>,
     final_filename |-> <<>>, output_filename_base |-> <<>>,
     output_path |-> <<>>, e |-> NoExc, started |-> FALSE,
     last_percent |-> 0, hook_finished |-> FALSE,
     background_tasks |-> <<>>, response |-> NoResponse,
     writes |-> <<>>, monotone |-> TRUE, hook_ignored |-> FALSE]

Init ==
    /\ download_progress = [x \in {} |-> NotStarted]
    /\ DOWNLOAD_DIR \in SaveDirs
    /\ files \in SUBSET PreExisting(DOWNLOAD_DIR)
    /\ req = [r \in Req |-> IdleFrame]
    /\ running = {}
    /\ polled = {}
    /\ history = [x \in SessionIds |-> [op |-> "never", val |-> NotStarted]]
    /\ streamed = {}
    /\ saved = {}

\* download_progress[sid] = v
Store(sid, v) ==
    /\ download_progress' = dict_set(download_progress, sid, v)
    /\ history' = [history EXCEPT ![sid] = [op |-> "set", val |-> v]]

NoStore == UNCHANGED <<download_progress, history>>

\* hook_ignored, in a frame, tells that the latest call of the progress hook
\* during the running download stored nothing.

\* The frame f after its request wrote `entry` to its session: writes lists
\* the statuses the request has written, a run of `downloading` counted
\* once, and monotone tells whether the percents of that run never dropped.
log_write(f, entry) ==
    LET in_run == /\ f.writes # <<>>
                  /\ f.writes[Len(f.writes)] = "downloading"
                  /\ entry.status = "downloading"
    IN  [f EXCEPT
            !.writes = IF in_run THEN @ ELSE Append(@, entry.status),
            !.monotone = @ /\ (in_run =>
                entry.progress >= download_progress[f.session_id].progress)]

\* the handler of request r is at step p
At(r, p) == running = {r} /\ req[r].pc = p

\* requests are taken up in order of their number
NextToServe(r) ==
    /\ running = {}
    /\ req[r].pc = "idle"
    /\ \A q \in Req : q < r => req[q].pc # "idle"

(***************************************************************************)
(* except clauses: Python runs the first clause whose class matches        *)
(***************************************************************************)
isinstance(type, cls) == cls = "Exception" \/ type = cls

\* main.py:188-196
save_handlers ==
    << [cls |-> "Exception", code |-> 500, prefix |-> ""],
       [cls |-> "ValueError", code |-> 400, prefix |-> ""] >>

\* main.py:269-280
stream_handlers ==
    << [cls |-> "ValueError", code |-> 400, prefix |-> ""],
       [cls |-> "RuntimeError", code |-> 500, prefix |-> ""],
       [cls |-> "Exception", code |-> 500, prefix |-> "Unexpected error: "] >>

handler_for(handlers, type) ==
    handlers[CHOOSE i \in 1..Len(handlers) :
                /\ isinstance(type, handlers[i].cls)
                /\ \A j \in 1..(i - 1) : ~isinstance(type, handlers[j].cls)]

\* title / filename sanitising, main.py:153 and main.py:223
keep_safe(s) == SelectSeq(s, LAMBDA c : isalnum(c) \/ c \in {".", "_", "-", " "})

\* uuid.uuid4().hex[:n], shortened to two characters
HexIds == {<<"0", "a">>, <<"0", "b">>}
\* datetime.now().strftime("%Y%m%d_%H%M%S")
Timestamps == {<<"2", "0", "2", "6", "0", "1", "0", "1", "_", "0", "0", "0", "0", "0", "0">>}

(***************************************************************************)
(* POST /save, save_audio (main.py:124-196)                                *)
(***************************************************************************)
\* the request arrives and the handler starts (main.py:125-134)
save_audio(r, url, use_hash, session_id) ==
    /\ NextToServe(r)
    /\ req' = [req EXCEPT ![r] = [IdleFrame EXCEPT
                  !.pc = "validate", !.kind = "save", !.url = url,
                  !.use_hash = use_hash, !.session_id = session_id]]
    /\ running' = {r}
    /\ polled' = {}
    /\ UNCHANGED <<download_progress, DOWNLOAD_DIR, files, history, streamed, saved>>

\* main.py:136
save_audio_validate(r) ==
    /\ At(r, "validate") /\ req[r].kind = "save"
    /\ LET v == validate_youtube_url(req[r].url)
       IN  IF v = {}
           THEN req' = [req EXCEPT ![r].e = InvalidInput, ![r].pc = "except"]
           ELSE req' = [req EXCEPT ![r].video_id = CHOOSE x \in v : TRUE,
                                   ![r].pc = "setup"]
    /\ NoStore
    /\ UNCHANGED <<DOWNLOAD_DIR, files, running, polled, streamed, saved>>

\* main.py:139-143
save_audio_setup(r, generated) ==
    /\ At(r, "setup") /\ req[r].kind = "save"
    /\ LET sid == IF req[r].session_id = None THEN generated
                  ELSE req[r].session_id
       IN  /\ Store(sid, Starting)
           /\ req' = [req EXCEPT ![r] = log_write(
                         [@ EXCEPT !.session_id = sid, !.started = TRUE,
                                   !.pc = "info"], Starting)]
    /\ UNCHANGED <<DOWNLOAD_DIR, files, running, polled, streamed, saved>>

\* main.py:146, get_video_info returns
save_audio_info(r, title) ==
    /\ At(r, "info")
    /\ req' = [req EXCEPT ![r].title = title, ![r].pc = "naming"]
    /\ NoStore
    /\ UNCHANGED <<DOWNLOAD_DIR, files, running, polled, streamed, saved>>

\* main.py:146, get_video_info raises
save_audio_info_raises(r) ==
    /\ At(r, "info")
    /\ req' = [req EXCEPT ![r].e = Unavailable, ![r].pc = "except"]
    /\ NoStore
    /\ UNCHANGED <<DOWNLOAD_DIR, files, running, polled, streamed, saved>>

\* main.py:147-154
save_filename(use_hash, video_id, timestamp, unique_id, title) ==
    IF use_hash
    THEN video_id \o <<"_">> \o timestamp \o <<"_">> \o unique_id \o MP3
    ELSE strip(keep_safe(title)) \o MP3

\* main.py:147-162
save_audio_naming(r, timestamp, unique_id) ==
    /\ At(r, "naming")
    /\ LET filename_to_use ==
               save_filename(req[r].use_hash, req[r].video_id, timestamp,
                             unique_id, req[r].title)
           final_path == get_unique_path(files, DOWNLOAD_DIR, filename_to_use)
           final_filename == basename(final_path)
       IN  req' = [req EXCEPT
                      ![r].filename_to_use = filename_to_use,
                      ![r].final_path = final_path,
                      ![r].final_filename = final_filename,
                      ![r].output_filename_base = splitext(final_filename)[1],
                      ![r].pc = "download"]
    /\ NoStore
    /\ UNCHANGED <<DOWNLOAD_DIR, files, running, polled, streamed, saved>>

\* a final update that is never stored
save_audio_finish_without_store(r) ==
    /\ At(r, "finish")
    /\ req' = [req EXCEPT ![r].pc = "return"]
    /\ NoStore
    /\ UNCHANGED <<DOWNLOAD_DIR, files, running, polled, streamed, saved>>

\* main.py:174-179
save_audio_finish(r) ==
    /\ At(r, "finish")
    /\ LET entry == Finished(req[r].final_path, req[r].final_filename)
       IN  /\ Store(req[r].session_id, entry)
           /\ req' = [req EXCEPT ![r] = log_write([@ EXCEPT !.pc = "return"], entry)]
    /\ UNCHANGED <<DOWNLOAD_DIR, files, running, polled, streamed, saved>>

\* main.py:181-186
save_audio_return(r) ==
    /\ At(r, "return")
    /\ req' = [req EXCEPT
                  ![r].response = [code |-> 200, detail |-> <<"", "success">>,
                                   path |-> req[r].final_path,
                                   filename |-> req[r].final_filename],
                  ![r].pc = "responded"]
    /\ NoStore
    /\ UNCHANGED <<DOWNLOAD_DIR, files, running, polled, streamed, saved>>

\* an except clause that raises without recording the error
except_body_without_record(r) ==
    /\ NoStore
    /\ req' = [req EXCEPT ![r].pc = "raise"]
    /\ UNCHANGED <<DOWNLOAD_DIR, files, running, polled, streamed, saved>>

\* the body of an except clause: record the error if the session has an entry
\* (main.py:189-190, 194-195, 270-271, 274-275, 278-279)
except_body(r) ==
    /\ IF req[r].session_id \in DOMAIN download_progress
       THEN /\ Store(req[r].session_id, Error(req[r].e.msg))
            /\ req' = [req EXCEPT ![r] =
                          log_write([@ EXCEPT !.pc = "raise"], Error(req[r].e.msg))]
       ELSE /\ NoStore
            /\ req' = [req EXCEPT ![r].pc = "raise"]
    /\ UNCHANGED <<DOWNLOAD_DIR, files, running, polled, streamed, saved>>

\* raise HTTPException(...) at the end of the matching except clause
except_raise(r, handlers) ==
    /\ LET h == handler_for(handlers, req[r].e.type)
       IN  req' = [req EXCEPT
                      ![r].response = [code |-> h.code,
                                       detail |-> <<h.prefix, req[r].e.msg>>,
                                       path |-> <<>>, filename |-> <<>>],
                      ![r].pc = "responded"]
    /\ NoStore
    /\ UNCHANGED <<DOWNLOAD_DIR, files, running, polled, streamed, saved>>

\* main.py:188-190 (and 193-195)
save_audio_except(r) ==
    /\ At(r, "except") /\ req[r].kind = "save"
    /\ except_body(r)

\* main.py:191 (and 196)
save_audio_raise(r) ==
    /\ At(r, "raise") /\ req[r].kind = "save"
    /\ except_raise(r, save_handlers)

(***************************************************************************)
(* download_youtube_audio as called at main.py:166-171 and 229-234: the    *)
(* engine reports progress through the hook, then returns or raises.       *)
(***************************************************************************)
\* the events the engine may report next: percents do not decrease, and
\* nothing follows the `finished` event
engine_may_emit(f, d) ==
    /\ ~f.hook_finished
    /\ d.status = "downloading" =>
          \A v \in float(remove_char(event_get(d.percent_str, <<"0", "%">>), "%")) :
              v >= f.last_percent

\* a hook that is not bound to its session and updates every entry
download_progress_hook_every_session(r, d) ==
    /\ At(r, "download")
    /\ engine_may_emit(req[r], d)
    /\ LET w == progress_hook(d)
       IN  IF w = {}
           THEN /\ NoStore
                /\ req' = [req EXCEPT ![r].hook_ignored = TRUE]
           ELSE LET entry == CHOOSE x \in w : TRUE
                IN  /\ download_progress' = [x \in DOMAIN download_progress |-> entry]
                    /\ history' = [x \in SessionIds |->
                                      IF x \in DOMAIN download_progress
                                      THEN [op |-> "set", val |-> entry]
                                      ELSE history[x]]
                    /\ req' = [req EXCEPT ![r] = log_write(
                          [@ EXCEPT
                              !.hook_ignored = FALSE,
                              !.last_percent =
                                  IF d = FinishedEvent THEN @ ELSE entry.progress,
                              !.hook_finished = (d = FinishedEvent)], entry)]
    /\ UNCHANGED <<DOWNLOAD_DIR, files, running, polled, streamed, saved>>

\* the engine calls hook(d), the closure of main.py:77-96 over session_id
download_progress_hook(r, d) ==
    /\ At(r, "download")
    /\ engine_may_emit(req[r], d)
    /\ LET w == progress_hook(d)
       IN  IF w = {}
           THEN /\ NoStore
                /\ req' = [req EXCEPT ![r].hook_ignored = TRUE]
           ELSE LET entry == CHOOSE x \in w : TRUE
                IN  /\ Store(req[r].session_id, entry)
                    /\ req' = [req EXCEPT ![r] = log_write(
                          [@ EXCEPT
                              !.hook_ignored = FALSE,
                              !.last_percent =
                                  IF d = FinishedEvent THEN @ ELSE entry.progress,
                              !.hook_finished = (d = FinishedEvent)], entry)]
    /\ UNCHANGED <<DOWNLOAD_DIR, files, running, polled, streamed, saved>>

\* the filename argument of the call: main.py:169 and main.py:232
download_filename(f) ==
    IF f.kind = "save" THEN f.output_filename_base ELSE f.filename_to_use

\* download_youtube_audio returns its output path; `created` tells whether
\* the artifact really is on disk
download_returns(r, created) ==
    /\ At(r, "download")
    /\ req[r].hook_finished
    /\ LET output_path == engine_output_path(DOWNLOAD_DIR, download_filename(req[r]))
       IN  /\ files' = IF created THEN files \cup {output_path} ELSE files
           /\ req' = [req EXCEPT
                         ![r].output_path = output_path,
                         ![r].hook_ignored = FALSE,
                         ![r].pc = IF req[r].kind = "save" THEN "finish" ELSE "check"]
    /\ NoStore
    /\ UNCHANGED <<DOWNLOAD_DIR, running, polled, streamed, saved>>

\* download_youtube_audio raises, after reporting an `error` event to the hook
download_raises(r, e) ==
    /\ At(r, "download")
    /\ LET w == progress_hook(ErrorEvent)
       IN  IF w = {}
           THEN /\ NoStore
                /\ req' = [req EXCEPT ![r].e = e, ![r].hook_ignored = FALSE,
                                      ![r].pc = "except"]
           ELSE LET entry == CHOOSE x \in w : TRUE
                IN  /\ Store(req[r].session_id, entry)
                    /\ req' = [req EXCEPT ![r] = log_write(
                                  [@ EXCEPT !.e = e, !.hook_ignored = FALSE,
                                            !.pc = "except"], entry)]
    /\ UNCHANGED <<DOWNLOAD_DIR, files, running, polled, streamed, saved>>

(***************************************************************************)
(* GET /stream, stream_audio (main.py:198-280)                             *)
(***************************************************************************)
\* the request arrives and the handler starts (main.py:199-209)
stream_audio(r, url, filename, session_id) ==
    /\ NextToServe(r)
    /\ req' = [req EXCEPT ![r] = [IdleFrame EXCEPT
                  !.pc = "validate", !.kind = "stream", !.url = url,
                  !.filename = filename, !.session_id = session_id]]
    /\ running' = {r}
    /\ polled' = {}
    /\ UNCHANGED <<download_progress, DOWNLOAD_DIR, files, history, streamed, saved>>

\* main.py:211
stream_audio_validate(r) ==
    /\ At(r, "validate") /\ req[r].kind = "stream"
    /\ LET v == validate_youtube_url(req[r].url)
       IN  IF v = {}
           THEN req' = [req EXCEPT ![r].e = InvalidInput, ![r].pc = "except"]
           ELSE req' = [req EXCEPT ![r].video_id = CHOOSE x \in v : TRUE,
                                   ![r].pc = "setup"]
    /\ NoStore
    /\ UNCHANGED <<DOWNLOAD_DIR, files, running, polled, streamed, saved>>

\* main.py:214-218
stream_audio_setup(r, generated) ==
    /\ At(r, "setup") /\ req[r].kind = "stream"
    /\ LET sid == IF req[r].session_id = None THEN generated
                  ELSE req[r].session_id
       IN  /\ Store(sid, Starting)
           /\ req' = [req EXCEPT ![r] = log_write(
                         [@ EXCEPT !.session_id = sid, !.started = TRUE,
                                   !.pc = "stream_naming"], Starting)]
    /\ UNCHANGED <<DOWNLOAD_DIR, files, running, polled, streamed, saved>>

\* main.py:222-226
stream_filename(filename, video_id, unique_id) ==
    IF filename # <<>>
    THEN keep_safe(filename) \o <<"_">> \o unique_id
    ELSE <<"y", "t", "_">> \o video_id \o <<"_">> \o unique_id

\* main.py:221-226
stream_audio_naming(r, unique_id) ==
    /\ At(r, "stream_naming")
    /\ req' = [req EXCEPT
                  ![r].filename_to_use =
                      stream_filename(req[r].filename, req[r].video_id, unique_id),
                  ![r].pc = "download"]
    /\ NoStore
    /\ UNCHANGED <<DOWNLOAD_DIR, files, running, polled, streamed, saved>>

FileNotFound ==
    [type |-> "HTTPException",
     msg |-> "500: Download failed: File not found after processing",
     src |-> "stream_audio"]

\* main.py:236-242
stream_audio_check(r) ==
    /\ At(r, "check")
    /\ IF ~exists(files, req[r].output_path)
       THEN LET entry == Error("File not found after processing")
            IN  /\ Store(req[r].session_id, entry)
                /\ req' = [req EXCEPT ![r] = log_write(
                              [@ EXCEPT !.e = FileNotFound, !.pc = "except"], entry)]
       ELSE /\ NoStore
            /\ req' = [req EXCEPT
                          ![r].final_filename = basename(req[r].output_path),
                          ![r].pc = "schedule"]
    /\ UNCHANGED <<DOWNLOAD_DIR, files, running, polled, streamed, saved>>

CleanupFileUndefined ==
    [type |-> "NameError", msg |-> "name 'cleanup_file' is not defined",
     src |-> "stream_audio"]

\* main.py:256: the module defines and imports no `cleanup_file`, so
\* evaluating the argument of add_task raises NameError
stream_audio_schedule_cleanup(r) ==
    /\ At(r, "schedule")
    /\ req' = [req EXCEPT ![r].e = CleanupFileUndefined, ![r].pc = "except"]
    /\ NoStore
    /\ UNCHANGED <<DOWNLOAD_DIR, files, running, polled, streamed, saved>>

\* main.py:269-271, 273-275, 277-279
stream_audio_except(r) ==
    /\ At(r, "except") /\ req[r].kind = "stream"
    /\ except_body(r)

\* main.py:272, 276, 280
stream_audio_raise(r) ==
    /\ At(r, "raise") /\ req[r].kind = "stream"
    /\ except_raise(r, stream_handlers)

(***************************************************************************)
(* The response leaves the handler: its locals are gone and the event      *)
(* loop is free again.                                                     *)
(***************************************************************************)
\* BackgroundTasks run once the response is sent; main.py:256 never gets
\* to add one, so background_tasks is empty here and nothing runs.
end_request(r) ==
    /\ At(r, "responded")
    /\ req[r].background_tasks = <<>>
    /\ req' = [req EXCEPT ![r] = [IdleFrame EXCEPT !.pc = "done"]]
    /\ running' = {}
    /\ streamed' = IF req[r].kind = "stream" /\ exists(files, req[r].output_path)
                   THEN streamed \cup {req[r].output_path} ELSE streamed
    /\ saved' = IF /\ req[r].kind = "save" /\ req[r].response.code = 200
                   /\ exists(files, req[r].output_path)
                THEN saved \cup {[filename_to_use |-> req[r].filename_to_use,
                                  final_path |-> req[r].final_path,
                                  output_path |-> req[r].output_path]}
                ELSE saved
    /\ NoStore
    /\ UNCHANGED <<DOWNLOAD_DIR, files, polled>>

(***************************************************************************)
(* GET /progress/{session_id}, get_progress (main.py:119-122)              *)
(***************************************************************************)
\* a poll that, like dict.setdefault, leaves the default in the store
get_progress_setdefault(session_id) ==
    /\ running = {}
    /\ polled' = {[session_id |-> session_id,
                   body |-> dict_get(download_progress, session_id, NotStarted)]}
    /\ download_progress' =
           IF session_id \in DOMAIN download_progress THEN download_progress
           ELSE dict_set(download_progress, session_id, NotStarted)
    /\ UNCHANGED <<DOWNLOAD_DIR, files, req, running, history, streamed, saved>>

get_progress(session_id) ==
    /\ running = {}
    /\ polled' = {[session_id |-> session_id,
                   body |-> dict_get(download_progress, session_id, NotStarted)]}
    /\ UNCHANGED <<download_progress, DOWNLOAD_DIR, files, req, running, history, streamed, saved>>

(***************************************************************************)
(* cleanup_session (main.py:59-65)                                         *)
(***************************************************************************)
\* a cleanup that also removes the file the entry points to
cleanup_session_removes_file(session_id) ==
    /\ running = {}
    /\ IF session_id \in DOMAIN download_progress
       THEN /\ download_progress' = dict_del(download_progress, session_id)
            /\ history' = [history EXCEPT ![session_id] =
                              [op |-> "removed", val |-> NotStarted]]
            /\ files' = IF download_progress[session_id].status = "finished"
                        THEN files \ {download_progress[session_id].path}
                        ELSE files
       ELSE NoStore /\ UNCHANGED files
    /\ polled' = {}
    /\ UNCHANGED <<DOWNLOAD_DIR, req, running, streamed, saved>>

cleanup_session(session_id) ==
    /\ running = {}
    /\ IF session_id \in DOMAIN download_progress
       THEN /\ download_progress' = dict_del(download_progress, session_id)
            /\ history' = [history EXCEPT ![session_id] =
                              [op |-> "removed", val |-> NotStarted]]
       ELSE NoStore
    /\ polled' = {}
    /\ UNCHANGED <<DOWNLOAD_DIR, files, req, running, streamed, saved>>

(***************************************************************************)
(* Specification                                                           *)
(***************************************************************************)
SessionArgs == ClientIds \cup {None}
StreamNames == {<<>>, <<"a", "/">>}

Next ==
    \/ \E r \in Req, url \in Urls, use_hash \in BOOLEAN, sid \in SessionArgs :
          save_audio(r, url, use_hash, sid)
    \/ \E r \in Req : save_audio_validate(r)
    \/ \E r \in Req, g \in GenIds : save_audio_setup(r, g)
    \/ \E r \in Req, t \in Titles : save_audio_info(r, t)
    \/ \E r \in Req : save_audio_info_raises(r)
    \/ \E r \in Req, ts \in Timestamps, u \in HexIds : save_audio_naming(r, ts, u)
    \/ \E r \in Req : save_audio_finish(r)
    \/ \E r \in Req : save_audio_return(r)
    \/ \E r \in Req : save_audio_except(r)
    \/ \E r \in Req : save_audio_raise(r)
    \/ \E r \in Req, d \in Events : download_progress_hook(r, d)
    \/ \E r \in Req, created \in BOOLEAN : download_returns(r, created)
    \/ \E r \in Req, e \in ExtractionFailure : download_raises(r, e)
    \/ \E r \in Req, url \in Urls, name \in StreamNames, sid \in SessionArgs :
          stream_audio(r, url, name, sid)
    \/ \E r \in Req : stream_audio_validate(r)
    \/ \E r \in Req, g \in GenIds : stream_audio_setup(r, g)
    \/ \E r \in Req, u \in HexIds : stream_audio_naming(r, u)
    \/ \E r \in Req : stream_audio_check(r)
    \/ \E r \in Req : stream_audio_schedule_cleanup(r)
    \/ \E r \in Req : stream_audio_except(r)
    \/ \E r \in Req : stream_audio_raise(r)
    \/ \E r \in Req : end_request(r)
    \/ \E sid \in SessionIds : get_progress(sid)
    \/ \E sid \in SessionIds : cleanup_session(sid)

Spec == Init /\ [][Next]_vars

(***************************************************************************)
(* Path resolution on its own: any directory contents, any save directory, *)
(* and one save request taken up to the point where its path is resolved.  *)
(***************************************************************************)
PathDirs == {<<"/", "d">>, <<"/">>}
PathCandidates(dir) ==
    {join(dir, a_mp3),
     join(dir, copy_name(<<"a">>, 1, MP3)),
     join(dir, copy_name(<<"a">>, 2, MP3)),
     join(dir, MP3),
     join(dir, copy_name(MP3, 1, <<>>))}

InitPath ==
    /\ download_progress = [x \in {} |-> NotStarted]
    /\ DOWNLOAD_DIR \in PathDirs
    /\ files \in SUBSET PathCandidates(DOWNLOAD_DIR)
    /\ req = [r \in Req |-> IdleFrame]
    /\ running = {}
    /\ polled = {}
    /\ history = [x \in SessionIds |-> [op |-> "never", val |-> NotStarted]]
    /\ streamed = {}
    /\ saved = {}

NextPath ==
    \/ \E r \in Req, url \in Urls, use_hash \in BOOLEAN, sid \in SessionArgs :
          save_audio(r, url, use_hash, sid)
    \/ \E r \in Req : save_audio_validate(r)
    \/ \E r \in Req, g \in GenIds : save_audio_setup(r, g)
    \/ \E r \in Req, t \in Titles : save_audio_info(r, t)
    \/ \E r \in Req, ts \in Timestamps, u \in HexIds : save_audio_naming(r, ts, u)

PathSpec == InitPath /\ [][NextPath]_vars

(***************************************************************************)
(* Properties                                                              *)
(***************************************************************************)
\* the entry a poll of request r's session would return
entry_of(r) == dict_get(download_progress, req[r].session_id, NotStarted)

\* request r's except clause has run and its HTTP error is about to be, or
\* has just been, raised
Failing(r) == running = {r} /\ req[r].pc \in {"raise", "responded"} /\ req[r].e # NoExc

\* request r has its response
Responded(r) == running = {r} /\ req[r].pc = "responded"

EngineSources == {"get_video_info", "download_youtube_audio"}

\* C1: when get_video_info or download_youtube_audio raised in a save or
\* stream request, the session's entry is {status: error, message: the
\* exception's message} from before the HTTP error is raised.
C1_EngineErrorRecorded ==
    \A r \in Req :
        (Failing(r) /\ req[r].e.src \in EngineSources) =>
            /\ req[r].started
            /\ req[r].session_id \in DOMAIN download_progress
            /\ download_progress[req[r].session_id] = Error(req[r].e.msg)

C1_Witness ==
    \E r \in Req :
        /\ running = {r} /\ req[r].pc = "raise" /\ req[r].kind = "stream"
        /\ req[r].e.src = "download_youtube_audio"
        /\ download_progress[req[r].session_id] = Error("Download failed")

\* C2: when URL validation fails in a save or stream request with a
\* client-supplied session id, a poll of that id returns status error,
\* whether or not the id had an entry before.
C2_ValidationErrorRecorded ==
    \A r \in Req :
        (Failing(r) /\ req[r].e = InvalidInput /\ req[r].session_id # None) =>
            entry_of(r).status = "error"

\* C3: a rejected URL gives a 4xx response, a failure of metadata retrieval
\* or of extraction gives a 5xx response, for POST /save and GET /stream.
C3_StatusCodeByFailureClass ==
    \A r \in Req :
        (Responded(r) /\ req[r].e # NoExc) =>
            /\ req[r].e.src = "validate_youtube_url" =>
                   req[r].response.code \in 400..499
            /\ req[r].e.src \in EngineSources =>
                   req[r].response.code \in 500..599

\* the extraction of request r succeeded and its artifact is on disk
Extracted(r) == req[r].output_path # <<>> /\ exists(files, req[r].output_path)

\* C4: a save or stream run whose extraction succeeded has written starting,
\* then downloading states of non-decreasing percent, then one processing,
\* then one finished, and nothing else.
C4_SuccessfulRunSequence ==
    \A r \in Req :
        (Responded(r) /\ Extracted(r)) =>
            /\ req[r].writes \in
                   {<<"starting", "processing", "finished">>,
                    <<"starting", "downloading", "processing", "finished">>}
            /\ req[r].monotone

\* C5: the artifact of a stream request whose extraction succeeded and whose
\* artifact was on disk is deleted once the response has been delivered and
\* the tasks scheduled behind it have run.
C5_StreamArtifactDeleted ==
    \A path \in streamed : ~exists(files, path)

\* C6: after a stream request whose extraction succeeded and whose artifact
\* existed, the session's entry is in the store with status finished.
C6_StreamEntryFinished ==
    \A r \in Req :
        (Responded(r) /\ req[r].kind = "stream" /\ Extracted(r)) =>
            /\ req[r].session_id \in DOMAIN download_progress
            /\ download_progress[req[r].session_id].status = "finished"

\* C7: get_unique_path(D, F) is D/F when D/F does not exist, otherwise
\* D/{stem}_copy{N}{ext} for the smallest N >= 1 whose path does not exist;
\* the path it returns does not exist.
C7_UniquePath ==
    \A r \in Req :
        (running = {r} /\ req[r].pc = "download" /\ req[r].kind = "save") =>
            LET F == req[r].filename_to_use
                stem == splitext(F)[1]
                ext == splitext(F)[2]
                candidate(N) == join(DOWNLOAD_DIR, copy_name(stem, N, ext))
            IN  /\ ~exists(files, req[r].final_path)
                /\ IF ~exists(files, join(DOWNLOAD_DIR, F))
                   THEN req[r].final_path = join(DOWNLOAD_DIR, F)
                   ELSE \E N \in 1..(Cardinality(files) + 1) :
                           /\ req[r].final_path = candidate(N)
                           /\ \A M \in 1..(N - 1) : exists(files, candidate(M))

C7_Witness ==
    \E r \in Req :
        /\ running = {r} /\ req[r].pc = "download" /\ req[r].kind = "save"
        /\ req[r].final_path = join(DOWNLOAD_DIR, copy_name(<<"a">>, 2, MP3))
        /\ DOWNLOAD_DIR = <<"/">>

\* C8: a poll returns not_started / 0 for an id never set, the last value
\* written for an id that was set, and not_started / 0 again after
\* cleanup_session removed the id.
C8_PollReturnsLastWrite ==
    \A p \in polled :
        p.body = IF history[p.session_id].op = "set"
                 THEN history[p.session_id].val
                 ELSE NotStarted

C8_Witness ==
    /\ \E p \in polled : history[p.session_id].op = "removed"
    /\ \E sid \in SessionIds : history[sid].op = "set"

\* C9: when download_youtube_audio returned a path and the artifact is not
\* on disk, the response is 5xx and the session is in error, in save mode
\* as in stream mode.
C9_MissingArtifactIsServerError ==
    \A r \in Req :
        (Responded(r) /\ req[r].output_path # <<>>
                      /\ ~exists(files, req[r].output_path)) =>
            /\ req[r].response.code \in 500..599
            /\ entry_of(r).status = "error"

InFlight == {"starting", "downloading", "processing"}

\* C10: while a save or stream request is in flight, a GET /progress for its
\* session can be served.
C10_PollServedInFlight ==
    \A r \in Req :
        (running = {r} /\ req[r].started /\ entry_of(r).status \in InFlight) =>
            ENABLED get_progress(req[r].session_id)

\* the title as save_audio cleans it for a file name (main.py:153)
sanitized(title) == strip(keep_safe(title))

\* C11: of two successful title-based saves of the same title T, the first,
\* finding no colliding file, resolves to <sanitized T>.mp3 and the second,
\* finding the first artifact, to <sanitized T>_copy1.mp3; the engine is
\* asked for that basename without its extension.
C11_SequentialSavesDistinct ==
    \A r \in Req :
        (At(r, "download") /\ req[r].kind = "save" /\ ~req[r].use_hash) =>
            LET T == sanitized(req[r].title)
                first == join(DOWNLOAD_DIR, T \o MP3)
                second == join(DOWNLOAD_DIR, copy_name(T, 1, MP3))
            IN  /\ ~exists(files, first) =>
                       /\ req[r].final_path = first
                       /\ download_filename(req[r]) = T
                /\ (/\ \E s \in saved : s.filename_to_use = T \o MP3
                                        /\ s.final_path = first
                    /\ exists(files, first)
                    /\ ~exists(files, second)) =>
                       /\ req[r].final_path = second
                       /\ download_filename(req[r]) = copy_name(T, 1, <<>>)

\* C12: while a save request has resolved its path and its file is not yet
\* written, a second save request can be taken up and resolve the same path.
C12_ConcurrentResolutionPossible ==
    \A r, q \in Req :
        (/\ At(r, "download") /\ req[r].kind = "save"
         /\ req[q].pc = "idle"
         /\ \A p \in Req : p < q => req[p].pc # "idle") =>
            ENABLED save_audio(q, req[r].url, req[r].use_hash, None)

\* C13: in every save and stream request the session is set to starting
\* before the first call into the engine, URL validation included.
C13_StartingBeforeEngine ==
    \A r \in Req :
        (running = {r} /\ req[r].pc # "validate") => req[r].started

\* C14: a file that a successful save request produced is on disk after any
\* sequence of later requests, polls and session cleanups.
C14_SavedFilesStay ==
    \A s \in saved : exists(files, s.output_path)

C14_Witness ==
    /\ saved # {}
    /\ \E sid \in SessionIds : history[sid].op = "removed"
    /\ \E r \in Req : Responded(r) /\ req[r].kind = "stream" /\ Extracted(r)

Terminal == {"finished", "error"}

\* C15: once a request has written finished or error to its session's
\* entry, that request writes nothing more to it.
C15_TerminalWrittenLast ==
    \A r \in Req :
        \A i \in 1..(Len(req[r].writes) - 1) : req[r].writes[i] \notin Terminal

\* C16: a request that set its session to starting leaves the entry at
\* finished or error when its handler returns or raises.
C16_EndsTerminal ==
    \A r \in Req :
        (Responded(r) /\ req[r].started) => entry_of(r).status \in Terminal

C16_Witness ==
    \E r \in Req :
        /\ Responded(r) /\ req[r].kind = "save" /\ req[r].response.code = 200
        /\ entry_of(r) = Finished(req[r].final_path, req[r].final_filename)

\* C17: an id leaves the store only by cleanup_session of that id, and a
\* poll changes no key of the store.
C17_OnlyCleanupRemoves ==
    [][/\ \A sid \in DOMAIN download_progress :
              sid \in DOMAIN download_progress' \/ cleanup_session(sid)
       /\ (\E sid \in SessionIds : get_progress(sid)) =>
              DOMAIN download_progress' = DOMAIN download_progress]_vars

C17_Witness ==
    /\ \E p \in polled : p.session_id \notin DOMAIN download_progress
    /\ DOMAIN download_progress # {}
    /\ streamed # {}

\* C18: every write of a request or of its progress hook goes to the
\* request's own session id; no other entry is added, removed or changed.
C18_WritesOwnSessionOnly ==
    [][\A r \in Req :
          running = {r} =>
              \A sid \in SessionIds \ {req'[r].session_id} :
                  /\ (sid \in DOMAIN download_progress') =
                         (sid \in DOMAIN download_progress)
                  /\ sid \in DOMAIN download_progress =>
                         download_progress'[sid] = download_progress[sid]]_vars

C18_Witness ==
    \E r \in Req :
        /\ At(r, "download")
        /\ entry_of(r).status = "downloading"
        /\ \E sid \in DOMAIN download_progress :
              sid # req[r].session_id /\ download_progress[sid].status = "finished"

\* the events the hook has nothing to store for
Ignorable(d) ==
    \/ d.status \notin {"downloading", "finished"}
    \/ /\ d.status = "downloading"
       /\ float(remove_char(event_get(d.percent_str, <<"0", "%">>), "%")) = {}

\* C19: a hook call with a downloading event whose percent does not parse,
\* or with an event of another status than downloading and finished,
\* leaves the store unchanged and returns to the engine without an error.
C19_IgnoredEventKeepsStore ==
    [][\A r \in Req, d \in Events :
          (Ignorable(d) /\ download_progress_hook(r, d)) =>
              /\ download_progress' = download_progress
              /\ req'[r].pc = "download"
              /\ req'[r].e = NoExc]_vars

C19_Witness ==
    \E r \in Req :
        /\ At(r, "download") /\ req[r].hook_ignored
        /\ entry_of(r).status = "downloading"

=============================================================================
